---- MODULE Spec2Model ----
(***************************************************************************)
(* Model of src/plasma_predictor/frontend/streamlit_app.py: a Streamlit    *)
(* script that is re-executed top to bottom on every user interaction.     *)
(* One render pass is: get_available_models (GET /models), the model       *)
(* selectbox, load_wavelengths (cached by st.cache_data), the eleven       *)
(* number inputs, the predict button with its POST /predict handler, and   *)
(* the sidebar.                                                            *)
(*                                                                         *)
(* A Python str that matters literally is a sequence of Unicode code       *)
(* points; a rendered element is a pair <<kind, text>>.                    *)
(***************************************************************************)
EXTENDS Integers, Sequences, FiniteSets, TLC

\* ------------------------------------------------------------------ bounds
MaxIntensity == 1      \* a field holds a value in 0..MaxIntensity (0 is 0.0)
MaxModels == 2         \* longest JSON array /models answers with
MaxTokenDelta == 1     \* header token counts range over 11-d .. 11+d
MaxReads == 2          \* the file-read counter saturates here

\* ------------------------------------------------------- program constants
NUM_WAVELENGTHS == 11
API_BASE_URL == "http://127.0.0.1:8000"
DATA_FILE_PATH == "PROJECT_ROOT/ML_Data/ML_data_for_learning_N1000.txt"
LATEST == "latest"
\* the code points of "파장 " (U+D30C U+C7A5 U+0020), the placeholder prefix
PLACEHOLDER_PREFIX == <<54028, 51109, 32>>
\* the default of .get('detail', ...): "상세 정보 없음"
NO_DETAIL == "no detail available"

Paths == {DATA_FILE_PATH}
Fields == 0..(NUM_WAVELENGTHS - 1)
Intensities == 0..MaxIntensity
\* the input fields the user edits: the first and the last one
EditableFields == {0, NUM_WAVELENGTHS - 1}
ModelNames == {"a.model", "b.model"}

VARIABLES
  pc,                \* position of the script run
  file,              \* the label file on disk (environment)
  cache,             \* st.cache_data store of load_wavelengths, by path
  file_reads,        \* how many times each path was read by pd.read_csv
  intensity,         \* session state of the widgets intensity_0 .. intensity_10
  choice,            \* session state of the selectbox: the options it was set for and the value
  clicked,           \* this pass was triggered by a press of the predict button
  retry,             \* this pass follows one that put an error, warning or exception on the page
  models_response,   \* the answer to GET /models, kept until the selectbox is drawn
  df,                \* what pd.read_csv met in this pass, kept until the form is drawn
  available_models,  \* what get_available_models returned in this pass
  selected_model,    \* what st.selectbox returned in this pass
  wavelength_labels, \* what load_wavelengths returned in this pass
  input_intensities, \* what the number inputs returned in this pass
  predict_payload,   \* the body of the POST of this pass
  response,          \* the module-level name `response` of the predict handler
  posts,             \* POST /predict requests issued in this pass
  rendered           \* the elements this pass put on the page

vars == <<pc, file, cache, file_reads, intensity, choice, clicked, retry,
          models_response, df, available_models, selected_model, wavelength_labels,
          input_intensities, predict_payload, response, posts, rendered>>

\* ----------------------------------------------------------- Python values
\* a value that is None or a list
None == [is_none |-> TRUE, list |-> <<>>]
List(s) == [is_none |-> FALSE, list |-> s]
\* Python truthiness of None or a list
Truthy(v) == ~v.is_none /\ Len(v.list) > 0

Range(s) == {s[i] : i \in 1..Len(s)}
SeqsUpTo(S, n) == UNION {[1..k -> S] : k \in 0..n}

\* ------------------------------------------------------------- the file
\* one token of the header row: pandas parsed it as a number or left a string
Token(num, v) == [num |-> num, v |-> v]
Header(n, textual) ==
  [kind |-> "header",
   tokens |-> [j \in 1..n |-> Token(~(textual /\ j = 1), 400 + j)]]
\* no read: the call was served from the cache
NoRead == [kind |-> "none", tokens |-> <<>>]
MissingFile == [kind |-> "missing", tokens |-> <<>>]
UnreadableFile == [kind |-> "unreadable", tokens |-> <<>>]
TokenCounts == (NUM_WAVELENGTHS - MaxTokenDelta)..(NUM_WAVELENGTHS + MaxTokenDelta)
FileStates ==
  {MissingFile, UnreadableFile, Header(NUM_WAVELENGTHS, TRUE)}
    \cup {Header(n, FALSE) : n \in TokenCounts}

\* a display label: text followed by the numeral of n (a float has no text)
Label(text, n) == [text |-> text, n |-> n]

\* f"파장 {i+1}" for i in range(11)
PlaceholderLabels == [j \in 1..NUM_WAVELENGTHS |-> Label(PLACEHOLDER_PREFIX, j)]
\* float(wl): defined on the tokens pandas parsed as numbers, ValueError otherwise
FloatOf(tok) == Label(<<>>, tok.v)
\* list(wavelengths_str): numbers stay numbers, a string token keeps its text ("w...")
RawOf(tok) == IF tok.num THEN Label(<<>>, tok.v) ELSE Label(<<119>>, tok.v)

\* load_wavelengths without the length check of line 33
load_wavelengths_any_count(f) ==
  IF f.kind \in {"missing", "unreadable"}
    THEN [value |-> List(PlaceholderLabels),
          msgs |-> {<<"warning_labels",
                      IF f.kind = "missing" THEN "FileNotFoundError" ELSE "Exception">>}]
    ELSE [value |-> List([j \in 1..Len(f.tokens) |-> RawOf(f.tokens[j])]), msgs |-> {}]

\* load_wavelengths where a missing file is an error without labels
load_wavelengths_missing_none(f) ==
  IF f.kind = "missing"
    THEN [value |-> None, msgs |-> {<<"error_labels", "FileNotFoundError">>}]
  ELSE IF f.kind = "unreadable"
    THEN [value |-> List(PlaceholderLabels),
          msgs |-> {<<"warning_labels", "Exception">>}]
  ELSE IF Len(f.tokens) = NUM_WAVELENGTHS
    THEN [value |-> List([j \in 1..Len(f.tokens) |-> RawOf(f.tokens[j])]), msgs |-> {}]
  ELSE [value |-> None, msgs |-> {<<"error_labels", "not 11 wavelengths">>}]

\* the body of load_wavelengths on the file f: the value returned and the
\* st.warning / st.error elements it emits
load_wavelengths(f) ==
  IF f.kind = "missing"
    THEN [value |-> List(PlaceholderLabels),
          msgs |-> {<<"warning_labels", "FileNotFoundError">>}]
  ELSE IF f.kind = "unreadable"
    THEN [value |-> List(PlaceholderLabels),
          msgs |-> {<<"warning_labels", "Exception">>}]
  ELSE
    LET wavelengths_str == f.tokens
        wavelengths ==
          IF \A j \in 1..Len(wavelengths_str) : wavelengths_str[j].num
            THEN [j \in 1..Len(wavelengths_str) |-> FloatOf(wavelengths_str[j])]
            ELSE [j \in 1..Len(wavelengths_str) |-> RawOf(wavelengths_str[j])]
    IN IF Len(wavelengths) = NUM_WAVELENGTHS
         THEN [value |-> List(wavelengths), msgs |-> {}]
         ELSE [value |-> None, msgs |-> {<<"error_labels", "not 11 wavelengths">>}]

\* an entry of the st.cache_data store: the pickled return value and the
\* elements to replay on a hit
NoEntry == [cached |-> FALSE, value |-> None, msgs |-> {}]
Entry(out) == [cached |-> TRUE, value |-> out.value, msgs |-> out.msgs]
\* a store that is never hit: the file is read on every call
cache_data_no_hit(e, f) ==
  [cached |-> TRUE, value |-> load_wavelengths(f).value, msgs |-> load_wavelengths(f).msgs]

\* @st.cache_data: the entry a call with the store entry e and the file f leaves
cache_data(e, f) == IF e.cached THEN e ELSE Entry(load_wavelengths(f))

\* ------------------------------------------------------------- HTTP
\* an element of a JSON array: an object with "name", an object without, or a scalar
Item(kind, name) == [kind |-> kind, name |-> name]
NamedItems == {Item("named", n) : n \in ModelNames}
Items == NamedItems \cup {Item("unnamed", ""), Item("scalar", "")}
\* a response body: not JSON ("text"), a JSON array, or a JSON object
Body(type, items, keys) == [type |-> type, items |-> items, keys |-> keys]
TextBody == Body("text", <<>>, {})
ArrayBody(items) == Body("array", items, {})
ObjectBody(keys) == Body("object", <<>>, keys)
Response(status, body) == [received |-> TRUE, status |-> status, body |-> body]
\* no response: the connection failed, or the name is unbound
NoResponse == [received |-> FALSE, status |-> 0, body |-> TextBody]

\* what GET /models can answer
GetResponses ==
  {NoResponse}
    \cup {Response(200, b) :
            b \in {TextBody, ObjectBody({}), ObjectBody({"detail"})}
                    \cup {ArrayBody(s) : s \in SeqsUpTo(NamedItems, MaxModels)}
                    \cup {ArrayBody(<<i>>) : i \in Items \ NamedItems}
                    \cup {ArrayBody(<<Item("named", "a.model"), i>>) : i \in Items \ NamedItems}}
    \cup {Response(304, b) : b \in {TextBody, ArrayBody(<<Item("named", "a.model")>>)}}
    \cup {Response(st, TextBody) : st \in {404, 500}}

\* what POST /predict can answer
PostResponses ==
  {NoResponse}
    \cup {Response(200, b) :
            b \in {TextBody, ArrayBody(<<>>)}
                    \cup {ObjectBody(k) : k \in SUBSET {"predicted_te", "model_used"}}}
    \cup {Response(304, ObjectBody({"predicted_te", "model_used"}))}
    \cup {Response(400, b) :
            b \in {TextBody, ArrayBody(<<>>), ObjectBody({}), ObjectBody({"detail"})}}
    \cup {Response(500, b) : b \in {TextBody, ObjectBody({"detail"})}}

\* the values the server puts under the keys of a /predict body
TE_TEXT == "3.5284"
MODEL_USED == "a.model"
DETAIL == "bad input"

\* response.json() on a body that is not JSON raises requests' JSONDecodeError
\* (a RequestException) from requests 2.27 on, and a plain ValueError before
JsonErrors == {"requests.JSONDecodeError", "ValueError"}
RequestExceptions == {"ConnectionError", "HTTPError", "requests.JSONDecodeError"}
\* response.raise_for_status(): HTTPError on 4xx and 5xx
RaisesForStatus(status) == status >= 400 /\ status < 600

\* ------------------------------------------------ get_available_models
Returns(value, msgs) == [raised |-> "", value |-> value, msgs |-> msgs]
Raises(e) == [raised |-> e, value |-> <<>>, msgs |-> {}]
\* the except branch: st.error and the default list
ModelsFallback(e) == Returns(<<LATEST>>, {<<"error_models", e>>})

\* the names in reverse of the server's order
NamesOf_reversed(items) ==
  IF \E j \in 1..Len(items) : items[j].kind # "named"
    THEN Raises("KeyError")
    ELSE Returns(<<LATEST>> \o [j \in 1..Len(items) |-> items[Len(items) + 1 - j].name], {})

\* [m["name"] for m in models] on a JSON array
NamesOf(items) ==
  IF \E j \in 1..Len(items) : items[j].kind # "named"
    THEN LET first == CHOOSE j \in 1..Len(items) :
                        /\ items[j].kind # "named"
                        /\ \A k \in 1..(j - 1) : items[k].kind = "named"
         IN Raises(IF items[first].kind = "unnamed" THEN "KeyError" ELSE "TypeError")
    ELSE Returns(<<LATEST>> \o [j \in 1..Len(items) |-> items[j].name], {})

\* get_available_models on the answer r, where json_error is what .json() raises
\* on a body that is not JSON
get_available_models(r, json_error) ==
  IF ~r.received THEN ModelsFallback("ConnectionError")
  ELSE IF RaisesForStatus(r.status) THEN ModelsFallback("HTTPError")
  ELSE IF r.body.type = "text"
    THEN IF json_error \in RequestExceptions
           THEN ModelsFallback(json_error)
           ELSE Raises(json_error)
  ELSE IF r.body.type = "object"
    \* iterating a dict yields its keys, and str["name"] is a TypeError
    THEN IF r.body.keys = {} THEN Returns(<<LATEST>>, {}) ELSE Raises("TypeError")
  ELSE NamesOf(r.body.items)

\* ------------------------------------------------ the predict handler
\* a secondary read that falls back to the default text instead of being skipped
ServerDetail_default(r) ==
  {<<"error_detail",
     IF r.received /\ r.body.type = "object" /\ "detail" \in r.body.keys
       THEN DETAIL ELSE NO_DETAIL>>}

\* the inner try of the RequestException branch: response.json().get('detail', ...)
\* under a bare except (NameError when no response was bound, the JSON error,
\* AttributeError when the JSON value has no .get)
ServerDetail(r) ==
  IF r.received /\ r.body.type = "object"
    THEN {<<"error_detail", IF "detail" \in r.body.keys THEN DETAIL ELSE NO_DETAIL>>}
    ELSE {}

\* what the try/except around the POST renders, given the value r of `response`
\* after requests.post (NoResponse when it raised ConnectionError)
predict_handler(r, json_error) ==
  IF ~r.received THEN {<<"error_api", "ConnectionError">>} \cup ServerDetail(r)
  ELSE IF RaisesForStatus(r.status) THEN {<<"error_api", "HTTPError">>} \cup ServerDetail(r)
  ELSE IF r.body.type = "text"
    THEN IF json_error \in RequestExceptions
           THEN {<<"error_api", json_error>>} \cup ServerDetail(r)
           ELSE {<<"error_unexpected", json_error>>}
  ELSE IF r.body.type = "array"
    THEN {<<"error_unexpected", "TypeError">>}
  ELSE IF "predicted_te" \notin r.body.keys
    THEN {<<"error_unexpected", "KeyError">>}
  ELSE IF "model_used" \notin r.body.keys
    \* st.success has run when result['model_used'] raises
    THEN {<<"success", TE_TEXT>>, <<"error_unexpected", "KeyError">>}
  ELSE {<<"success", TE_TEXT>>, <<"caption", MODEL_USED>>}

\* ------------------------------------------------------------ the page
TITLE == <<"title", "">>
SELECTBOX == <<"selectbox", "">>
NUMBER_INPUTS == <<"number_inputs", "">>
BUTTON == <<"button", "">>
INFO == <<"info", "">>
ERROR_BLOCKED == <<"error_blocked", "">>
SIDEBAR == <<"sidebar", API_BASE_URL>>

NoPayload == [model_name |-> "", intensities |-> <<>>]
\* a name the run has not bound yet
Unbound == [is_none |-> FALSE, list |-> <<>>]
NoChoice == [options |-> <<>>, value |-> ""]

\* st.selectbox(label, options): the stored value while the widget is the same
\* (same options), the first option otherwise
selectbox(state, options) ==
  IF state.options = options THEN state.value ELSE options[1]
\* the inputs collected in reverse order
number_inputs_reversed(session) ==
  [j \in 1..NUM_WAVELENGTHS |-> session[NUM_WAVELENGTHS - j]]

\* the eleven number inputs, in range(11) order
number_inputs(session) == [j \in 1..NUM_WAVELENGTHS |-> session[j - 1]]
\* the dict built on a button press
payload(model, intensities) == [model_name |-> model, intensities |-> intensities]

Init ==
  /\ pc = "idle"
  /\ file \in [Paths -> FileStates]
  /\ cache = [p \in Paths |-> NoEntry]
  /\ file_reads = [p \in Paths |-> 0]
  /\ intensity = [i \in Fields |-> 0]
  /\ choice = NoChoice
  /\ clicked = FALSE
  /\ retry = FALSE
  /\ models_response = NoResponse
  /\ df = NoRead
  /\ available_models = <<>>
  /\ selected_model = ""
  /\ wavelength_labels = Unbound
  /\ input_intensities = <<>>
  /\ predict_payload = NoPayload
  /\ response = NoResponse
  /\ posts = 0
  /\ rendered = {}

Waiting == pc \in {"idle", "done"}

\* the kinds of element that report a failure
ErrorKinds ==
  {"error_models", "error_labels", "warning_labels", "error_blocked",
   "error_api", "error_detail", "error_unexpected", "exception"}
Kinds(page) == {x[1] : x \in page}

\* a run that leaves the elements of the last pass on the page
StartRun_keep_page(button) ==
  /\ pc' = "get_models"
  /\ clicked' = button
  /\ retry' = (Kinds(rendered) \cap ErrorKinds # {})
  /\ models_response' = NoResponse
  /\ df' = NoRead
  /\ available_models' = <<>>
  /\ selected_model' = ""
  /\ wavelength_labels' = Unbound
  /\ input_intensities' = <<>>
  /\ predict_payload' = NoPayload
  /\ response' = NoResponse
  /\ posts' = 0
  /\ rendered' = rendered \cup {TITLE}

\* the script starts over: every name of the last run is gone, the page is
\* cleared down to the title (lines 58-59)
StartRun(button) ==
  /\ pc' = "get_models"
  /\ clicked' = button
  /\ retry' = (Kinds(rendered) \cap ErrorKinds # {})
  /\ models_response' = NoResponse
  /\ df' = NoRead
  /\ available_models' = <<>>
  /\ selected_model' = ""
  /\ wavelength_labels' = Unbound
  /\ input_intensities' = <<>>
  /\ predict_payload' = NoPayload
  /\ response' = NoResponse
  /\ posts' = 0
  /\ rendered' = {TITLE}

\* the page is opened, or rerun without a widget change
Rerun ==
  /\ Waiting
  /\ StartRun(FALSE)
  /\ UNCHANGED <<file, cache, file_reads, intensity, choice>>

\* the user changes input field i to v
EditField(i, v) ==
  /\ Waiting
  /\ NUMBER_INPUTS \in rendered
  /\ v # intensity[i]
  /\ intensity' = [intensity EXCEPT ![i] = v]
  /\ StartRun(FALSE)
  /\ UNCHANGED <<file, cache, file_reads, choice>>

\* the user picks another model in the selectbox
SelectModel(m) ==
  /\ Waiting
  /\ SELECTBOX \in rendered
  /\ m \in Range(available_models)
  /\ m # selected_model
  /\ choice' = [options |-> available_models, value |-> m]
  /\ StartRun(FALSE)
  /\ UNCHANGED <<file, cache, file_reads, intensity>>

\* the user presses the predict button
ClickPredict ==
  /\ Waiting
  /\ BUTTON \in rendered
  /\ StartRun(TRUE)
  /\ UNCHANGED <<file, cache, file_reads, intensity, choice>>

\* the environment replaces, removes or damages the label file
FileChange(p, f) ==
  /\ Waiting
  /\ f # file[p]
  /\ file' = [file EXCEPT ![p] = f]
  /\ UNCHANGED <<pc, cache, file_reads, intensity, choice, clicked, retry,
                 models_response, df, available_models, selected_model, wavelength_labels,
                 input_intensities, predict_payload, response, posts, rendered>>

\* line 48: requests.get returns the answer r, or raises ConnectionError
HttpGetModels(r) ==
  /\ pc = "get_models"
  /\ models_response' = r
  /\ pc' = "models_response"
  /\ UNCHANGED <<file, cache, file_reads, intensity, choice, clicked, retry, df,
                 available_models, selected_model, wavelength_labels,
                 input_intensities, predict_payload, response, posts, rendered>>

\* lines 49-55 and 62: the rest of get_available_models.  An exception it does
\* not catch ends the script run; Streamlit shows it on the page
GetAvailableModelsReturn(json_error) ==
  /\ pc = "models_response"
  /\ LET out == get_available_models(models_response, json_error)
     IN IF out.raised # ""
          THEN /\ rendered' = rendered \cup {<<"exception", out.raised>>}
               /\ pc' = "done"
               /\ models_response' = NoResponse
               /\ retry' = FALSE
               /\ UNCHANGED available_models
          ELSE /\ rendered' = rendered \cup out.msgs
               /\ available_models' = out.value
               /\ pc' = "selectbox"
               /\ UNCHANGED <<models_response, retry>>
  /\ UNCHANGED <<file, cache, file_reads, intensity, choice, clicked, df,
                 selected_model, wavelength_labels,
                 input_intensities, predict_payload, response, posts>>

\* lines 65-67
SelectBox ==
  /\ pc = "selectbox"
  /\ selected_model' = selectbox(choice, available_models)
  /\ choice' = [options |-> available_models, value |-> selected_model']
  /\ rendered' = rendered \cup {SELECTBOX}
  /\ pc' = "load_wavelengths"
  /\ models_response' = NoResponse
  /\ UNCHANGED <<file, cache, file_reads, intensity, clicked, retry, df,
                 available_models, wavelength_labels,
                 input_intensities, predict_payload, response, posts>>

\* line 70: the cached call load_wavelengths(DATA_FILE_PATH)
LoadWavelengths ==
  /\ pc = "load_wavelengths"
  /\ LET p == DATA_FILE_PATH
         e == cache_data(cache[p], file[p])
     IN /\ cache' = [cache EXCEPT ![p] = e]
        /\ file_reads' =
             IF cache'[p] = cache[p] \/ file_reads[p] = MaxReads
               THEN file_reads
               ELSE [file_reads EXCEPT ![p] = @ + 1]
        /\ df' = IF cache[p].cached THEN NoRead ELSE file[p]
        /\ wavelength_labels' = e.value
        /\ rendered' = rendered \cup e.msgs
  /\ pc' = "form"
  /\ UNCHANGED <<file, intensity, choice, clicked, retry, models_response,
                 available_models, selected_model,
                 input_intensities, predict_payload, response, posts>>

\* a button that reads as pressed in every run
button_always(pressed) == TRUE

\* st.button: True in the run its press triggered
button(pressed) == pressed

\* lines 72-85 and 114-119: the form, or the blocking error; then, unless the
\* button was pressed, the sidebar
RenderForm ==
  /\ pc = "form"
  /\ IF Truthy(wavelength_labels)
       THEN /\ input_intensities' = number_inputs(intensity)
            /\ IF button(clicked)
                 THEN /\ rendered' = rendered \cup {NUMBER_INPUTS, BUTTON}
                      /\ pc' = "predict"
                 ELSE /\ rendered' = rendered \cup {NUMBER_INPUTS, BUTTON, SIDEBAR}
                      /\ pc' = "done"
       ELSE /\ rendered' = rendered \cup {ERROR_BLOCKED, SIDEBAR}
            /\ pc' = "done"
            /\ UNCHANGED input_intensities
  /\ retry' = FALSE
  /\ df' = NoRead
  /\ UNCHANGED <<file, cache, file_reads, intensity, choice, clicked, models_response,
                 available_models, selected_model, wavelength_labels,
                 predict_payload, response, posts>>

\* lines 87-95: the payload, the info element and requests.post, which binds
\* `response` to the answer r or raises ConnectionError and binds nothing
HttpPostPredict(r) ==
  /\ pc = "predict"
  /\ predict_payload' = payload(selected_model, input_intensities)
  /\ rendered' = rendered \cup {INFO}
  /\ posts' = posts + 1
  /\ response' = r
  /\ pc' = "predict_response"
  /\ UNCHANGED <<file, cache, file_reads, intensity, choice, clicked, retry,
                 models_response, df,
                 available_models, selected_model, wavelength_labels, input_intensities>>

\* lines 96-112 and 117-119: the outcome of the call, then the sidebar
PredictHandle(json_error) ==
  /\ pc = "predict_response"
  /\ rendered' = rendered \cup predict_handler(response, json_error) \cup {SIDEBAR}
  /\ pc' = "done"
  /\ UNCHANGED <<file, cache, file_reads, intensity, choice, clicked, retry,
                 models_response, df,
                 available_models, selected_model, wavelength_labels,
                 input_intensities, predict_payload, response, posts>>

Next ==
  \/ Rerun
  \/ \E i \in EditableFields, v \in Intensities : EditField(i, v)
  \/ \E m \in ModelNames \cup {LATEST} : SelectModel(m)
  \/ ClickPredict
  \/ \E p \in Paths, f \in FileStates : FileChange(p, f)
  \/ \E r \in GetResponses : HttpGetModels(r)
  \/ \E e \in JsonErrors : GetAvailableModelsReturn(e)
  \/ SelectBox
  \/ LoadWavelengths
  \/ RenderForm
  \/ \E r \in PostResponses : HttpPostPredict(r)
  \/ \E e \in JsonErrors : PredictHandle(e)

Spec == Init /\ [][Next]_vars

\* ================================================================ claims
P0 == DATA_FILE_PATH
Shown(kind) == kind \in Kinds(rendered)
\* the run reached the end of the script
Completed == pc = "done" /\ SIDEBAR \in rendered
\* a JSON array of objects that all carry "name"
NamedArray(r) ==
  /\ r.received
  /\ r.body.type = "array"
  /\ \A j \in 1..Len(r.body.items) : r.body.items[j].kind = "named"
NamesInOrder(r) == [j \in 1..Len(r.body.items) |-> r.body.items[j].name]
Is2xx(r) == r.received /\ r.status \in 200..299
Is4xx5xx(r) == r.received /\ r.status \in 400..599
\* the code points of "Wavelength "
WAVELENGTH_PREFIX == <<87, 97, 118, 101, 108, 101, 110, 103, 116, 104, 32>>
\* the list "<prefix>1", ..., "<prefix>11"
NumberedLabels(prefix) == [j \in 1..11 |-> [text |-> prefix, n |-> j]]
PredictKinds == {"info", "success", "caption", "error_api", "error_detail", "error_unexpected"}

\* C1: get_available_models never raises: whatever GET /models answers, no
\* uncaught exception reaches the page and every finished pass has drawn the
\* model selectbox.
C1_NeverRaises ==
  /\ ~Shown("exception")
  /\ pc = "done" => SELECTBOX \in rendered

\* C2: a pass issues exactly one POST /predict when it was triggered by a press
\* of the button and the form is drawn, and none otherwise; a failed POST is
\* not issued again.
C2_PostOncePerClick ==
  /\ posts <= 1
  /\ ~clicked => posts = 0
  /\ pc = "done" => posts = (IF clicked /\ BUTTON \in rendered THEN 1 ELSE 0)
C2_Witness ==
  /\ pc = "done"
  /\ clicked
  /\ posts = 1
  /\ Shown("error_api")

\* C3: a header with a token count other than 11 makes load_wavelengths emit the
\* validation error and return None, which is not the missing-file result; a
\* pass whose loader returned None draws neither the inputs nor the button,
\* shows the blocking error and issues no POST.
C3_WrongCountBlocks ==
  /\ (pc = "form" /\ df.kind = "header" /\ Len(df.tokens) # 11) =>
        /\ wavelength_labels = None
        /\ Shown("error_labels")
        /\ ~Shown("warning_labels")
  /\ (pc = "form" /\ df.kind = "missing") => wavelength_labels # None
  /\ wavelength_labels = None =>
        /\ posts = 0
        /\ pc \notin {"predict", "predict_response"}
        /\ NUMBER_INPUTS \notin rendered
        /\ BUTTON \notin rendered
  /\ (pc = "done" /\ wavelength_labels = None) => ERROR_BLOCKED \in rendered
C3_Witness ==
  /\ pc = "done"
  /\ wavelength_labels = None
  /\ ERROR_BLOCKED \in rendered
  /\ Len(file[P0].tokens) = 12

\* C4 as stated: a missing file gives exactly "Wavelength 1" .. "Wavelength 11"
\* with a warning and no error, any other exception gives the same list, and
\* the form is drawn with these labels.
C4_Original ==
  /\ (pc = "form" /\ df.kind \in {"missing", "unreadable"}) =>
        /\ wavelength_labels = List(NumberedLabels(WAVELENGTH_PREFIX))
        /\ Shown("warning_labels")
        /\ ~Shown("error_labels")
  /\ (Completed /\ Shown("warning_labels")) =>
        /\ NUMBER_INPUTS \in rendered
        /\ BUTTON \in rendered
        /\ ERROR_BLOCKED \notin rendered
\* C4 amended: the placeholder labels are "파장 1" .. "파장 11"; the rest of the
\* claim stands.
C4_Amended ==
  /\ (pc = "form" /\ df.kind \in {"missing", "unreadable"}) =>
        /\ wavelength_labels = List(NumberedLabels(PLACEHOLDER_PREFIX))
        /\ Shown("warning_labels")
        /\ ~Shown("error_labels")
  /\ (Completed /\ Shown("warning_labels")) =>
        /\ NUMBER_INPUTS \in rendered
        /\ BUTTON \in rendered
        /\ ERROR_BLOCKED \notin rendered
C4_Witness ==
  /\ Completed
  /\ wavelength_labels = List(NumberedLabels(PLACEHOLDER_PREFIX))
  /\ <<"warning_labels", "FileNotFoundError">> \in rendered
  /\ NUMBER_INPUTS \in rendered

\* what C5 promises of a pass whose POST failed
C5_FailureShown ==
  /\ \E x \in rendered : x[1] = "error_api" /\ x[2] # ""
  /\ (response.received /\ response.body.type = "object"
        /\ "detail" \in response.body.keys) => <<"error_detail", "bad input">> \in rendered
  /\ (~response.received \/ response.body.type = "text") =>
        /\ ~Shown("error_detail")
        /\ ~Shown("error_unexpected")
  /\ ~Shown("exception")
  /\ Completed
\* C5 as stated: after a network error or any status outside 2xx the primary
\* failure message with the error text is shown, the server's detail is shown
\* too when the body is JSON with `detail`, and a failed secondary read shows
\* nothing more and raises nothing.
C5_Original ==
  (pc = "done" /\ posts = 1 /\ ~Is2xx(response)) => C5_FailureShown
\* C5 amended: the same for a network error or a 4xx or 5xx status, the statuses
\* raise_for_status raises on.
C5_Amended ==
  (pc = "done" /\ posts = 1 /\ (~response.received \/ Is4xx5xx(response))) => C5_FailureShown
C5_Witness ==
  /\ pc = "done"
  /\ response = Response(400, ObjectBody({"detail"}))
  /\ <<"error_detail", DETAIL>> \in rendered
  /\ Shown("error_api")

\* the service answers, and answers well
GetSucceeded(r) == Is2xx(r) /\ NamedArray(r)
\* the file is present with eleven header tokens after the first column
WellFormed(f) == f.kind = "header" /\ Len(f.tokens) = 11
\* a pass that follows a failed one shows nothing of the model-list or predict
\* failure once the service answers, and uses the list it just got
C6_ServiceRetried ==
  /\ (pc = "selectbox" /\ retry /\ GetSucceeded(models_response)) =>
        /\ Kinds(rendered) \cap ErrorKinds = {}
        /\ available_models = <<"latest">> \o NamesInOrder(models_response)
  /\ (Waiting /\ ~clicked) => Kinds(rendered) \cap PredictKinds = {}
\* C6 as stated: every error lasts for its own pass only; in the pass after a
\* failed one, with the file present and well-formed and the service answering,
\* nothing of the earlier error is shown and the labels and the model list are
\* the ones just obtained.
C6_Original ==
  /\ C6_ServiceRetried
  /\ (pc = "form" /\ retry /\ WellFormed(file[P0]) /\ ~Shown("error_models")) =>
        /\ Kinds(rendered) \cap ErrorKinds = {}
        /\ wavelength_labels = load_wavelengths(file[P0]).value
\* C6 amended: the model-list and predict errors last for their own pass only;
\* the outcome of the label loader, with its warning or error, is the cached one
\* of the first call and is shown again in every later pass, whatever the file
\* is by then.
C6_Amended ==
  /\ C6_ServiceRetried
  /\ (pc = "form" /\ retry /\ ~Shown("error_models")) =>
        /\ {x \in rendered : x[1] \in ErrorKinds} = cache[P0].msgs
        /\ wavelength_labels = cache[P0].value
C6_Witness ==
  /\ pc = "selectbox"
  /\ retry
  /\ GetSucceeded(models_response)
  /\ Len(available_models) = 3

\* C7: the loader's result is cached by path: a path is read at most once, an
\* entry never changes once it is stored, and a call that finds an entry returns
\* its value without reading the file, whatever the file is by then.
C7_CachedByPath ==
  [][\A p \in Paths :
       /\ file_reads'[p] <= 1
       /\ cache[p].cached =>
            /\ cache'[p] = cache[p]
            /\ file_reads'[p] = file_reads[p]
            /\ (pc = "load_wavelengths" /\ p = P0) =>
                  /\ wavelength_labels' = cache[p].value
                  /\ df' = NoRead]_vars
C7_Witness ==
  /\ pc = "form"
  /\ df = NoRead
  /\ file_reads[P0] = 1
  /\ wavelength_labels = cache[P0].value
  /\ wavelength_labels # load_wavelengths(file[P0]).value

\* C8: the body of every POST carries the model selected in the pass, a member
\* of the list the lister returned in it ("latest" when the lister failed), and
\* eleven intensities, the i-th being the value of input field i, 0.0 for the
\* fields nobody edited; a press is never rejected, all-zero values included.
C8_PayloadMatchesForm ==
  /\ posts >= 1 =>
        /\ predict_payload.model_name = selected_model
        /\ selected_model \in Range(available_models)
        /\ Shown("error_models") => predict_payload.model_name = "latest"
        /\ Len(predict_payload.intensities) = 11
        /\ \A i \in 0..10 : predict_payload.intensities[i + 1] = intensity[i]
        /\ \A i \in (0..10) \ EditableFields : predict_payload.intensities[i + 1] = 0
  /\ (pc = "done" /\ clicked /\ BUTTON \in rendered) => posts = 1
C8_Witness ==
  /\ posts = 1
  /\ predict_payload = [model_name |-> "b.model",
                        intensities |-> [j \in 1..11 |-> IF j = 11 THEN 1 ELSE 0]]

C10_ExactlyOneOutcome ==
  (pc = "done" /\ posts = 1) =>
    /\ Cardinality(Kinds(rendered) \cap {"success", "error_api", "error_unexpected"}) = 1
    /\ Shown("success") =>
          /\ response.body.type = "object"
          /\ {"predicted_te", "model_used"} \subseteq response.body.keys
====
